---------------------------- MODULE Spec2Model ----------------------------
(***************************************************************************)
(* Model of the Kwik cluster-store items of phy/io/kwik/store_items.py:    *)
(* FeatureMasks (features and masks of every cluster, plus the mask        *)
(* statistics kept in memory) and Waveforms.                               *)
(*                                                                         *)
(* Records (spikes) are numbered 0 .. n_spikes-1 as in the source; a       *)
(* sequence position p holds record p-1.  A stored row is identified by    *)
(* the record whose data it holds; StaleRow is a row of unknown content.   *)
(***************************************************************************)
EXTENDS Integers, Sequences, FiniteSets, TLC

\* ------------------------------------------------------------------ bounds
MaxSpikes  == 3      \* n_spikes of the external model
MaxChunk   == 2      \* largest configured chunk_size
MaxCluster == 3      \* largest cluster id ever handed out
MaxRows    == 3      \* a pass starts only while no file holds more rows
MaxMaskRows == 2     \* rows of a masks array handed to the statistics alone
MaxProgress == 3     \* a pass starts only while no progress value is larger
MaxAdded == 2        \* clusters an update of another description names as added

\* ------------------------------------------------- configuration constants
n_channels    == 3   \* len(model.channel_order)
n_features    == 2   \* model.n_features_per_channel
n_samples     == 2   \* model.n_samples_waveforms
n_spikes_max  == 2   \* Waveforms: subsampling budget of the Selector

StaleRow == 0 - 1

VARIABLES
    spike_clusters,   \* model.spike_clusters: cluster id of every record
    chunk_size,       \* FeatureMasks.chunk_size
    disk,             \* FeatureMasks disk store: cluster -> field -> file
    memory,           \* FeatureMasks memory store: cluster -> statistics
    wdisk,            \* Waveforms disk store: cluster -> field -> file
    wmemory,          \* Waveforms memory store: cluster -> mean_waveforms
    pc,               \* position of the driver
    mode,             \* mode of the running store_all_clusters pass
    clusters_to_generate, \* local of FeatureMasks.store_all_clusters
    i,                \* chunk counter of the running pass
    up,               \* the update handed to on_cluster
    hist,             \* the last forward update (for undo / redo)
    err,              \* the last handler ended in an exception
    fresh,            \* at the start of the pass no pending cluster had a file
    prev,             \* the previous driver call and how it ended
    ret,              \* result of the last is_consistent query
    pr_disk,          \* progress_reporter_disk: value, value_max, complete
    pr_memory         \* progress_reporter_memory: value, value_max, complete

vars == <<spike_clusters, chunk_size, disk, memory, wdisk, wmemory, pc, mode,
          clusters_to_generate, i, up, hist, err, fresh, prev, ret,
          pr_disk, pr_memory>>

Clusters == 0 .. MaxCluster
Spikes   == 0 .. (MaxSpikes - 1)
Fields   == {"features", "masks"}
WFields  == {"waveforms", "waveforms_spikes"}
Channels == 0 .. (n_channels - 1)

\* ----------------------------------------------------------------- helpers
Min(S) == CHOOSE x \in S : \A y \in S : x <= y
Max(S) == CHOOSE x \in S : \A y \in S : x >= y

RECURSIVE SortedSeq(_)
SortedSeq(S) == IF S = {} THEN <<>> ELSE <<Min(S)>> \o SortedSeq(S \ {Min(S)})

Range(s) == {s[k] : k \in DOMAIN s}

RECURSIVE Flatten(_)
Flatten(ss) == IF ss = <<>> THEN <<>> ELSE Head(ss) \o Flatten(Tail(ss))

\* ------------------------------------------------------------- disk layer
NoFile == [exists |-> FALSE, rows |-> <<>>, pad |-> 0]
File(rows) == [exists |-> TRUE, rows |-> rows, pad |-> 0]

\* Bytes of one row of a field: float32 values, int64 record indices.
RowBytes(name) ==
    CASE name = "features"         -> n_channels * n_features * 4
      [] name = "masks"            -> n_channels * 4
      [] name = "waveforms"        -> n_channels * n_samples * 4
      [] name = "waveforms_spikes" -> 8

FileSize(f, name) == Len(f.rows) * RowBytes(name) + f.pad

\* disk_store.store(cluster, name=rows, append=...).  Appending behind a file
\* whose size is no multiple of the element size shifts the new bytes, so the
\* rows read back later are not the rows written.
StoreFile(f, rows, append) ==
    IF append /\ f.exists
    THEN [f EXCEPT !.rows = IF f.pad = 0 THEN @ \o rows
                            ELSE @ \o [k \in 1 .. Len(rows) |-> StaleRow]]
    ELSE File(rows)

\* disk_store.load(cluster, name, dtype, shape): the whole rows of the file.
Load(f) == f.rows

\* ------------------------------------------------------- clustering views
n_spikes == Len(spike_clusters)

\* utils.array._spikes_per_cluster(spike_ids, spike_clusters), as a function
\* from the clusters present to their ascending record indices; spike_ids[k]
\* is the record of spike_clusters[k].
SpikesPerCluster(spike_ids, sc) ==
    [c \in Range(sc) |->
        SortedSeq({spike_ids[k] : k \in {j \in DOMAIN sc : sc[j] = c}})]

AllSpikes(sc) == [k \in 1 .. Len(sc) |-> k - 1]

PendingClusterIds == SortedSeq(clusters_to_generate)

\* The store's spikes_per_cluster and cluster_ids for a clustering.
SpcOf(sc) == SpikesPerCluster(AllSpikes(sc), sc)
spikes_per_cluster == SpcOf(spike_clusters)
cluster_ids == SortedSeq(DOMAIN spikes_per_cluster)

\* utils.array._index_of(arr, lookup): position (0-based) of every element of
\* arr in lookup.
IndexOf(arr, lookup) ==
    [k \in 1 .. Len(arr) |->
        (CHOOSE p \in DOMAIN lookup : lookup[p] = arr[k]) - 1]

\* model.features_masks: the row of record s is identified by s.
fm(sc) == AllSpikes(sc)

\* seq[a:b] of the source (0-based, b exclusive, cut at the end).
Slice(seq, a, b) ==
    IF a >= Len(seq) THEN <<>>
    ELSE SubSeq(seq, a + 1, IF b < Len(seq) THEN b ELSE Len(seq))

\* np.arange(a, b)
Arange(a, b) == [k \in 1 .. (b - a) |-> a + k - 1]

\* ------------------------------------------------- FeatureMasks: statistics
\* Mask of record row on channel ch, in tenths (10 is a mask of 1.0).
MaskOf(row, ch) ==
    IF row = StaleRow THEN 0 ELSE IF (row + ch) % 2 = 0 THEN 10 ELSE 0

\* The masks array of the rows of a file: one row per stored row, one mask
\* per channel.
MasksOf(rows) ==
    [k \in DOMAIN rows |-> [ch \in Channels |-> MaskOf(rows[k], ch)]]

\* masks.sum(axis=0), column ch.
RECURSIVE SumColumn(_, _)
SumColumn(masks, ch) ==
    IF masks = <<>> THEN 0 ELSE Head(masks)[ch] + SumColumn(Tail(masks), ch)

SumMasks(rows, ch) == SumColumn(MasksOf(rows), ch)

NoStats == [set |-> FALSE, n_rows |-> 0,
            sum_masks |-> [ch \in Channels |-> 0],
            n_unmasked_channels |-> 0, main_channels |-> <<>>]

UnmaskedAtCutoff(sum, n) == n > 0 /\ sum >= n

\* mean_masks > .1, with mean_masks = sum_masks / n_rows and masks in tenths.
\* Without rows the means are NaN and no comparison holds.
Unmasked(sum, n) == n > 0 /\ sum > n

\* np.argsort(mean_masks): channels by ascending mean, ties by channel.
ArgSort(sums) ==
    LET keys == SortedSeq({sums[ch] * n_channels + ch : ch \in Channels})
    IN  [k \in 1 .. Len(keys) |-> keys[k] % n_channels]

Reverse(s) == [k \in 1 .. Len(s) |-> s[Len(s) + 1 - k]]

MainChannelsAscending(sums, unmasked_channels) ==
    SelectSeq(ArgSort(sums), LAMBDA c : c \in unmasked_channels)

\* Lines 84-86: all channels by descending mean, then those unmasked.
MainChannels(sums, unmasked_channels) ==
    SelectSeq(Reverse(ArgSort(sums)), LAMBDA c : c \in unmasked_channels)

\* The fields lines 77-93 compute from one cluster's masks array.
ExtraFields(masks) ==
    LET n    == Len(masks)
        sums == [ch \in Channels |-> SumColumn(masks, ch)]
        unmasked_channels == {ch \in Channels : Unmasked(sums[ch], n)}
    IN  [set |-> TRUE, n_rows |-> n, sum_masks |-> sums,
         n_unmasked_channels |-> Cardinality(unmasked_channels),
         main_channels |-> MainChannels(sums, unmasked_channels)]

\* The fields of a cluster whose masks file holds rows.
Stats(rows) == ExtraFields(MasksOf(rows))

RECURSIVE StoreExtraFieldsOnce(_, _, _)
StoreExtraFieldsOnce(d, mem, clusters) ==
    IF clusters = <<>> THEN [mem |-> mem, err |-> FALSE]
    ELSE LET cluster == Head(clusters) IN
         IF ~d[cluster].masks.exists THEN [mem |-> mem, err |-> TRUE]
         ELSE StoreExtraFieldsOnce(
                  d,
                  IF mem[cluster].set THEN mem
                  ELSE [mem EXCEPT ![cluster] = Stats(Load(d[cluster].masks))],
                  Tail(clusters))

\* _store_extra_fields(clusters): the memory store after the loop, and whether
\* the loop ended in the assertion of line 74 (no masks array to load).
RECURSIVE StoreExtraFields(_, _, _)
StoreExtraFields(d, mem, clusters) ==
    IF clusters = <<>> THEN [mem |-> mem, err |-> FALSE]
    ELSE LET cluster == Head(clusters) IN
         IF ~d[cluster].masks.exists THEN [mem |-> mem, err |-> TRUE]
         ELSE StoreExtraFields(
                  d,
                  [mem EXCEPT ![cluster] = Stats(Load(d[cluster].masks))],
                  Tail(clusters))

\* ------------------------------------------ FeatureMasks: progress
\* A progress reporter as the store uses it: a maximum it sets, a value it
\* increments and a completion flag it sets.  A new reporter starts at 0.
NoProgress == [value |-> 0, value_max |-> 0, complete |-> FALSE]

\* pr.value_max = n
SetValueMax(pr, n) == [pr EXCEPT !.value_max = n]

\* pr.value += n
Increment(pr, n) == [pr EXCEPT !.value = @ + n]

\* pr.set_complete()
SetComplete(pr) == [pr EXCEPT !.complete = TRUE]

\* The iterations of the loop of line 68 that reach line 96: the clusters
\* before the first one without a masks array to load.
RECURSIVE ExtraFieldsDone(_, _)
ExtraFieldsDone(d, clusters) ==
    IF clusters = <<>> THEN 0
    ELSE IF ~d[Head(clusters)].masks.exists THEN 0
    ELSE 1 + ExtraFieldsDone(d, Tail(clusters))

\* Lines 66, 96 and 98: what _store_extra_fields(clusters) does to the memory
\* progress reporter.
ProgressExtraFields(pr, d, clusters) ==
    LET done == ExtraFieldsDone(d, clusters)
        counted == Increment(SetValueMax(pr, Len(clusters)), done)
    IN  IF done = Len(clusters) THEN SetComplete(counted) ELSE counted

\* --------------------------------------- FeatureMasks: bulk generation
StoreClusterAppendOff(d, cluster, chunk_spikes, chunk_spc, chunk_fm) ==
    LET idx == IndexOf(chunk_spc[cluster], chunk_spikes)
        tmp == [k \in 1 .. Len(idx) |-> chunk_fm[idx[k] + 1]]
    IN  [d EXCEPT ![cluster] =
            [features |-> StoreFile(@.features, tmp, FALSE),
             masks    |-> StoreFile(@.masks, tmp, FALSE)]]

\* _store_cluster: the rows of the cluster in the chunk, appended to both
\* disk fields.
StoreCluster(d, cluster, chunk_spikes, chunk_spc, chunk_fm) ==
    LET idx == IndexOf(chunk_spc[cluster], chunk_spikes)
        tmp == [k \in 1 .. Len(idx) |-> chunk_fm[idx[k] + 1]]
    IN  [d EXCEPT ![cluster] =
            [features |-> StoreFile(@.features, tmp, TRUE),
             masks    |-> StoreFile(@.masks, tmp, TRUE)]]

IsConsistentMasksOnly(d, cluster, spikes) ==
    /\ d[cluster].masks.exists
    /\ Len(spikes) * n_channels * 4 = FileSize(d[cluster].masks, "masks")

\* FeatureMasks.is_consistent(cluster, spikes)
IsConsistent(d, cluster, spikes) ==
    LET cluster_size == Len(spikes)
        expected_file_sizes ==
            << <<"masks", cluster_size * n_channels * 4>>,
               <<"features", cluster_size * n_channels * n_features * 4>> >>
    IN  \A k \in DOMAIN expected_file_sizes :
            LET name == expected_file_sizes[k][1]
                expected_file_size == expected_file_sizes[k][2]
            IN  /\ d[cluster][name].exists
                /\ expected_file_size = FileSize(d[cluster][name], name)

\* StoreItem.to_generate(mode) for FeatureMasks.
ToGenerate(d, sc, m) ==
    CASE m = "default" ->
             {c \in DOMAIN SpcOf(sc) : ~IsConsistent(d, c, SpcOf(sc)[c])}
      [] m = "force" -> DOMAIN SpcOf(sc)
      [] m = "read-only" -> {}

NChunksNoExtra(sc, cs) == Len(sc) \div cs

\* Line 55: n_chunks = n_spikes // chunk_size + 1.
NChunks(sc, cs) == (Len(sc) \div cs) + 1

ChunkClustersAll(chunk_spc, to_gen) == DOMAIN chunk_spc

\* Lines 212-213: the clusters of the chunk that are to be generated.
ChunkClusters(chunk_spc, to_gen) == DOMAIN chunk_spc \cap to_gen

RECURSIVE StoreClusters(_, _, _, _, _)
StoreClusters(d, clusters, chunk_spikes, chunk_spc, chunk_fm) ==
    IF clusters = <<>> THEN d
    ELSE StoreClusters(
             StoreCluster(d, Head(clusters), chunk_spikes, chunk_spc, chunk_fm),
             Tail(clusters), chunk_spikes, chunk_spc, chunk_fm)

\* The chunk of iteration k of the loop of line 194.
ChunkFM(sc, cs, k) == Slice(fm(sc), k * cs, (k + 1) * cs)

StoreChunkFirstAgain(d, sc, cs, to_gen, k) ==
    LET a == 0
        b == cs
        chunk_spike_clusters == Slice(sc, a, b)
        chunk_spikes == Arange(a, b)
        chunk_spc == SpikesPerCluster(chunk_spikes, chunk_spike_clusters)
        clusters == ChunkClusters(chunk_spc, to_gen)
    IN  StoreClusters(d, SortedSeq(clusters), chunk_spikes, chunk_spc,
                      ChunkFM(sc, cs, 0))

\* Lines 203-219: the body of one iteration, on a non-empty chunk.
StoreChunk(d, sc, cs, to_gen, k) ==
    LET a == k * cs
        b == (k + 1) * cs
        chunk_spike_clusters == Slice(sc, a, b)
        chunk_spikes == Arange(a, b)
        chunk_spc == SpikesPerCluster(chunk_spikes, chunk_spike_clusters)
        clusters == ChunkClusters(chunk_spc, to_gen)
    IN  StoreClusters(d, SortedSeq(clusters), chunk_spikes, chunk_spc,
                      ChunkFM(sc, cs, k))

\* Whether iteration k runs its body: k is in range(n_chunks) and the chunk
\* is not empty (line 200).
ChunkRuns(sc, cs, k) == k < NChunks(sc, cs) /\ Len(ChunkFM(sc, cs, k)) # 0

\* The whole loop of lines 194-222 from iteration k on.
RECURSIVE ChunkLoop(_, _, _, _, _)
ChunkLoop(d, sc, cs, to_gen, k) ==
    IF ChunkRuns(sc, cs, k)
    THEN ChunkLoop(StoreChunk(d, sc, cs, to_gen, k), sc, cs, to_gen, k + 1)
    ELSE d

\* ------------------------------------ FeatureMasks: incremental update
NoUp == [isNone |-> TRUE, description |-> "none", history |-> "None",
         added |-> <<>>, deleted |-> <<>>, descendants |-> {},
         old_spikes_per_cluster |-> <<>>, new_spikes_per_cluster |-> <<>>]

\* np.argsort of distinct record indices, applied to the rows beside them.
SortBySpikes(spikes, rows) ==
    LET sorted == SortedSeq(Range(spikes))
    IN  [k \in 1 .. Len(sorted) |->
            rows[CHOOSE p \in DOMAIN spikes : spikes[p] = sorted[k]]]

\* utils.array._concatenate_per_cluster_arrays(spikes_per_cluster, arrays):
\* the arrays of the clusters, rows in ascending record order; an assertion
\* fails when an array has not one row per record of its cluster.
ConcatenatePerClusterArrays(spc, arrays) ==
    LET clusters == SortedSeq(DOMAIN arrays)
        bad == \E c \in DOMAIN arrays : Len(spc[c]) # Len(arrays[c])
        spikes == Flatten([k \in DOMAIN clusters |-> spc[clusters[k]]])
        rows   == Flatten([k \in DOMAIN clusters |-> arrays[clusters[k]]])
    IN  [err  |-> bad,
         rows |-> IF bad THEN <<>> ELSE SortBySpikes(spikes, rows)]

MergeFieldPlain(d, u, name) ==
    LET clusters == Range(u.deleted)
        spc == u.old_spikes_per_cluster
    IN  IF \E c \in clusters : ~d[c][name].exists
        THEN [d |-> d, err |-> TRUE]
        ELSE LET arrays == [c \in clusters |-> Load(d[c][name])]
                 concat == ConcatenatePerClusterArrays(spc, arrays)
                 sorted == SortedSeq(clusters)
             IN  IF concat.err THEN [d |-> d, err |-> TRUE]
                 ELSE [d |-> [d EXCEPT ![u.added[1]][name] =
                                  StoreFile(@, Flatten([k \in DOMAIN sorted |->
                                                           arrays[sorted[k]]]),
                                            FALSE)],
                       err |-> FALSE]

MergeFieldSilentEmpty(d, u, name) ==
    LET clusters == Range(u.deleted)
        spc == u.old_spikes_per_cluster
        present == {c \in clusters : d[c][name].exists}
        arrays == [c \in present |-> Load(d[c][name])]
        concat == ConcatenatePerClusterArrays(spc, arrays)
    IN  IF concat.err THEN [d |-> d, err |-> TRUE]
        ELSE [d |-> [d EXCEPT ![u.added[1]][name] =
                         StoreFile(@, concat.rows, FALSE)],
              err |-> FALSE]

\* One iteration of the loop of line 240 of _merge, for field name: the disk
\* store afterwards, and whether the iteration raised.
MergeField(d, u, name) ==
    LET clusters == Range(u.deleted)
        spc == u.old_spikes_per_cluster
    IN  IF \E c \in clusters : ~d[c][name].exists
        THEN [d |-> d, err |-> TRUE]
        ELSE LET arrays == [c \in clusters |-> Load(d[c][name])]
                 concat == ConcatenatePerClusterArrays(spc, arrays)
             IN  IF concat.err THEN [d |-> d, err |-> TRUE]
                 ELSE [d |-> [d EXCEPT ![u.added[1]][name] =
                                  StoreFile(@, concat.rows, FALSE)],
                       err |-> FALSE]

\* _merge(up): the features field, then the masks field.
Merge(d, u) ==
    LET f == MergeField(d, u, "features")
    IN  IF f.err THEN [d |-> d, err |-> TRUE]
        ELSE MergeField(f.d, u, "masks")

AssignPartsFirstRows(d, u, name, new) ==
    LET old_clusters == {o \in Range(u.deleted) : <<o, new>> \in u.descendants}
        new_spikes == u.new_spikes_per_cluster[new]
        subset(old) == SelectSeq(u.old_spikes_per_cluster[old],
                                 LAMBDA s : s \in Range(new_spikes))
        rows(old) == Load(d[old][name])
    IN  [err |-> \E old \in old_clusters :
                     \/ ~d[old][name].exists
                     \/ Len(subset(old)) > Len(rows(old)),
         spc |-> [old \in old_clusters |-> subset(old)],
         old_arrays_sub |->
             [old \in old_clusters |->
                 [k \in DOMAIN subset(old) |->
                     IF k <= Len(rows(old)) THEN rows(old)[k] ELSE StaleRow]]]

\* Lines 283-303 for one new cluster: the records and rows every parent
\* cluster passes on to it.
AssignParts(d, u, name, new) ==
    LET old_clusters == {o \in Range(u.deleted) : <<o, new>> \in u.descendants}
        new_spikes == u.new_spikes_per_cluster[new]
        subset(old) == SelectSeq(u.old_spikes_per_cluster[old],
                                 LAMBDA s : s \in Range(new_spikes))
        rel(old) == IndexOf(subset(old), u.old_spikes_per_cluster[old])
        rows(old) == Load(d[old][name])
    IN  [err |-> \E old \in old_clusters :
                     \/ ~d[old][name].exists
                     \/ \E k \in DOMAIN rel(old) : rel(old)[k] + 1 > Len(rows(old)),
         spc |-> [old \in old_clusters |-> subset(old)],
         old_arrays_sub |->
             [old \in old_clusters |->
                 [k \in DOMAIN rel(old) |->
                     IF rel(old)[k] + 1 <= Len(rows(old))
                     THEN rows(old)[rel(old)[k] + 1] ELSE StaleRow]]]

\* The loop of line 280 over the new clusters, for field name.
RECURSIVE AssignNew(_, _, _, _, _)
AssignNew(d0, d, u, name, added) ==
    IF added = <<>> THEN [d |-> d, err |-> FALSE]
    ELSE LET new == Head(added)
             parts == AssignParts(d0, u, name, new)
             concat == ConcatenatePerClusterArrays(parts.spc,
                                                   parts.old_arrays_sub)
         IN  IF parts.err \/ concat.err THEN [d |-> d, err |-> TRUE]
             ELSE AssignNew(d0,
                            [d EXCEPT ![new][name] =
                                 StoreFile(@, concat.rows, FALSE)],
                            u, name, Tail(added))

\* _assign(up): the features field, then the masks field; the old arrays are
\* loaded (line 274) before any new array of the field is stored.
Assign(d, u) ==
    LET f == AssignNew(d, d, u, "features", u.added)
    IN  IF f.err THEN f
        ELSE AssignNew(f.d, f.d, u, "masks", u.added)

OnClusterNoReplayGuard(u) == u.isNone

\* Line 321: the update is absent or replays history.
OnClusterSkips(u) == u.isNone \/ u.history # "None"

\* FeatureMasks.on_cluster(up): the stores afterwards and whether it raised.
OnCluster(d, mem, u) ==
    IF OnClusterSkips(u) THEN [d |-> d, mem |-> mem, err |-> FALSE]
    ELSE LET r == CASE u.description = "merge"  -> Merge(d, u)
                    [] u.description = "assign" -> Assign(d, u)
                    [] OTHER -> [d |-> d, err |-> FALSE]
         IN  IF r.err THEN [d |-> r.d, mem |-> mem, err |-> TRUE]
             ELSE LET x == StoreExtraFields(r.d, mem, u.added)
                  IN  [d |-> r.d, mem |-> x.mem, err |-> x.err]

\* FeatureMasks.on_cluster(up): the memory progress reporter afterwards.
ProgressOnCluster(pr, d, u) ==
    IF OnClusterSkips(u) THEN pr
    ELSE LET r == CASE u.description = "merge"  -> Merge(d, u)
                    [] u.description = "assign" -> Assign(d, u)
                    [] OTHER -> [d |-> d, err |-> FALSE]
         IN  IF r.err THEN pr ELSE ProgressExtraFields(pr, r.d, u.added)

\* ------------------------------------------------------------- Waveforms
NoMean == [set |-> FALSE, of |-> <<>>]

\* Selector.subset_spikes_clusters([cluster]): at most n_spikes_max records
\* of the cluster.
SubsetSpikesClusters(sc, cluster) ==
    IF cluster \in DOMAIN SpcOf(sc)
    THEN LET s == SpcOf(sc)[cluster]
         IN  SubSeq(s, 1, IF Len(s) < n_spikes_max THEN Len(s) ELSE n_spikes_max)
    ELSE <<>>

\* Waveforms.store_cluster(cluster)
WStoreCluster(w, sc, cluster) ==
    LET spikes == SubsetSpikesClusters(sc, cluster)
    IN  [d   |-> [w.d EXCEPT ![cluster] =
                     [waveforms        |-> StoreFile(@.waveforms, spikes, FALSE),
                      waveforms_spikes |-> StoreFile(@.waveforms_spikes, spikes, FALSE)]],
         mem |-> [w.mem EXCEPT ![cluster] = [set |-> TRUE, of |-> spikes]]]

RECURSIVE WStoreClusters(_, _, _)
WStoreClusters(w, sc, clusters) ==
    IF clusters = <<>> THEN w
    ELSE WStoreClusters(WStoreCluster(w, sc, Head(clusters)), sc, Tail(clusters))

WIsConsistentNoSamples(d, cluster, spikes) ==
    LET file_size_w == FileSize(d[cluster].waveforms, "waveforms")
        file_size_s == FileSize(d[cluster].waveforms_spikes, "waveforms_spikes")
        n_spikes_s == file_size_s \div 8
        n_spikes_w == file_size_w \div (n_channels * 4)
    IN  /\ d[cluster].waveforms.exists
        /\ d[cluster].waveforms_spikes.exists
        /\ n_spikes_s = n_spikes_w

\* Waveforms.is_consistent(cluster, spikes)
WIsConsistent(d, cluster, spikes) ==
    LET file_size_w == FileSize(d[cluster].waveforms, "waveforms")
        file_size_s == FileSize(d[cluster].waveforms_spikes, "waveforms_spikes")
        n_spikes_s == file_size_s \div 8
        n_spikes_w == file_size_w \div (n_channels * n_samples * 4)
    IN  /\ d[cluster].waveforms.exists
        /\ d[cluster].waveforms_spikes.exists
        /\ n_spikes_s = n_spikes_w

\* StoreItem.to_generate(mode) for Waveforms.
WToGenerate(d, sc, m) ==
    CASE m = "default" ->
             {c \in DOMAIN SpcOf(sc) : ~WIsConsistent(d, c, SpcOf(sc)[c])}
      [] m = "force" -> DOMAIN SpcOf(sc)
      [] m = "read-only" -> {}

WOnClusterAlsoDeleted(w, sc, u) ==
    IF u.isNone \/ u.history # "None" THEN w
    ELSE IF u.description \in {"merge", "assign"}
         THEN WStoreClusters(w, sc, u.added \o u.deleted)
         ELSE w

\* Waveforms.on_cluster(up)
WOnCluster(w, sc, u) ==
    IF u.isNone \/ u.history # "None" THEN w
    ELSE IF u.description \in {"merge", "assign"}
         THEN WStoreClusters(w, sc, u.added)
         ELSE w

\* ------------------------------------------------------------ the machine
\* What a store directory holds for a cluster when the store is opened.
Conds == {"missing", "ok", "stale", "nomasks"}

InitFiles(cond, spikes) ==
    CASE cond = "missing" -> [features |-> NoFile, masks |-> NoFile]
      [] cond = "ok"      -> [features |-> File(spikes), masks |-> File(spikes)]
      [] cond = "stale"   -> [features |-> File(spikes \o <<StaleRow>>),
                              masks    |-> File(spikes \o <<StaleRow>>)]
      [] cond = "nomasks" -> [features |-> File(spikes), masks |-> NoFile]

InitWFiles(cond, spikes) ==
    CASE cond = "missing" -> [waveforms |-> NoFile, waveforms_spikes |-> NoFile]
      [] cond = "ok"      -> [waveforms |-> File(spikes),
                              waveforms_spikes |-> File(spikes)]
      [] cond = "stale"   -> [waveforms |-> File(spikes \o <<StaleRow>>),
                              waveforms_spikes |-> File(spikes)]
      [] cond = "nomasks" -> [waveforms |-> File(spikes),
                              waveforms_spikes |-> NoFile]

NoHist == [up |-> NoUp, before |-> <<>>, after |-> <<>>, undone |-> FALSE]
NoCall == [op |-> "none", mode |-> "none", err |-> FALSE]
NoRet  == [item |-> "none", value |-> FALSE]

Init ==
    /\ spike_clusters \in {sc \in [1 .. MaxSpikes -> {0, 1}] : sc[1] = 0}
    /\ chunk_size \in 1 .. MaxChunk
    /\ \E cond \in [DOMAIN spikes_per_cluster -> Conds] :
          /\ disk = [c \in Clusters |->
                        IF c \in DOMAIN cond
                        THEN InitFiles(cond[c], spikes_per_cluster[c])
                        ELSE InitFiles("missing", <<>>)]
          /\ wdisk = [c \in Clusters |->
                        IF c \in DOMAIN cond
                        THEN InitWFiles(cond[c],
                                        SubsetSpikesClusters(spike_clusters, c))
                        ELSE InitWFiles("missing", <<>>)]
    /\ memory = [c \in Clusters |-> NoStats]
    /\ wmemory = [c \in Clusters |-> NoMean]
    /\ pc = "idle"
    /\ mode = "none"
    /\ clusters_to_generate = {}
    /\ i = 0
    /\ up = NoUp
    /\ hist = NoHist
    /\ err = FALSE
    /\ fresh = FALSE
    /\ prev = NoCall
    /\ ret = NoRet
    /\ pr_disk = NoProgress
    /\ pr_memory = NoProgress

model_vars == <<spike_clusters, chunk_size>>
fm_vars    == <<disk, memory>>
w_vars     == <<wdisk, wmemory>>
pass_vars  == <<mode, clusters_to_generate, i, fresh>>
pr_vars    == <<pr_disk, pr_memory>>

\* The driver returns to idle; a store_all_clusters call that ends is
\* remembered as the call before the next one.
Return(op, failed) ==
    /\ pc' = "idle"
    /\ err' = failed
    /\ prev' = IF op = "store_all"
               THEN [op |-> op, mode |-> mode, err |-> failed]
               ELSE NoCall
    /\ mode' = "none"
    /\ clusters_to_generate' = {}
    /\ i' = 0
    /\ fresh' = FALSE
    /\ up' = NoUp

\* The handler hands over to the next one of the same driver call.
Continue(next) ==
    /\ pc' = next
    /\ UNCHANGED <<err, prev, pass_vars, up>>

\* FeatureMasks.store_all_clusters(mode), lines 183-189: the pending set.
StoreAllClusters(m) ==
    /\ pc = "idle"
    /\ \A c \in Clusters : \A f \in Fields : Len(disk[c][f].rows) <= MaxRows
    /\ pr_disk.value <= MaxProgress
    /\ pr_memory.value <= MaxProgress
    /\ mode' = m
    /\ clusters_to_generate' = ToGenerate(disk, spike_clusters, m)
    /\ fresh' = \A c \in clusters_to_generate' :
                    \A f \in Fields : ~disk[c][f].exists
    /\ i' = 0
    /\ err' = FALSE
    /\ pc' = IF clusters_to_generate' # {} THEN "fm_chunk" ELSE "fm_extra"
    /\ pr_disk' = IF clusters_to_generate' # {}
                  THEN SetValueMax(pr_disk, NChunks(spike_clusters, chunk_size))
                  ELSE pr_disk
    /\ UNCHANGED <<model_vars, fm_vars, w_vars, up, hist, prev, ret, pr_memory>>

\* One iteration of the loop of line 194 on a non-empty chunk.
StoreChunkStep ==
    /\ pc = "fm_chunk"
    /\ ChunkRuns(spike_clusters, chunk_size, i)
    /\ disk' = StoreChunk(disk, spike_clusters, chunk_size,
                          clusters_to_generate, i)
    /\ i' = i + 1
    /\ pr_disk' = Increment(pr_disk, 1)
    /\ UNCHANGED <<model_vars, memory, w_vars, pc, mode, clusters_to_generate,
                   fresh, up, hist, err, prev, ret, pr_memory>>

\* The loop ends: range(n_chunks) is exhausted or the chunk is empty.
StoreChunksEnd ==
    /\ pc = "fm_chunk"
    /\ ~ChunkRuns(spike_clusters, chunk_size, i)
    /\ pc' = "fm_extra"
    /\ UNCHANGED <<model_vars, fm_vars, w_vars, pass_vars, up, hist, err,
                   prev, ret, pr_vars>>

\* Lines 224-227: the statistics of every known cluster.
StoreAllExtra ==
    /\ pc = "fm_extra"
    /\ LET x == StoreExtraFields(disk, memory, cluster_ids)
       IN  /\ memory' = x.mem
           /\ IF x.err THEN Return("store_all", TRUE)
              ELSE Continue("w_store_all")
    /\ pr_disk' = SetComplete(pr_disk)
    /\ pr_memory' = ProgressExtraFields(pr_memory, disk, cluster_ids)
    /\ UNCHANGED <<model_vars, disk, w_vars, hist, ret>>

WStoreAllTargetsEvery(d, sc, m) == DOMAIN SpcOf(sc)

\* Lines 372-374: the clusters the loop stores are those of to_generate(mode).
WStoreAllTargets(d, sc, m) == WToGenerate(d, sc, m)

\* Waveforms.store_all_clusters(mode)
WStoreAllClusters ==
    /\ pc = "w_store_all"
    /\ LET clusters == WStoreAllTargets(wdisk, spike_clusters, mode)
           w == WStoreClusters([d |-> wdisk, mem |-> wmemory], spike_clusters,
                               SortedSeq(clusters))
       IN  /\ wdisk' = w.d
           /\ wmemory' = w.mem
    /\ Return("store_all", FALSE)
    /\ UNCHANGED <<model_vars, fm_vars, hist, ret, pr_vars>>

\* ----------------------------------------------- partition-change events
\* Clustering.new_cluster_id(): ids are never reused.
NextId ==
    1 + Max(Range(spike_clusters) \cup Range(hist.up.added)
                \cup Range(hist.up.deleted))

\* The update of a merge of the clusters S into one new cluster.
MergeUpdate(sc, S, new) ==
    LET sc2 == [k \in DOMAIN sc |-> IF sc[k] \in S THEN new ELSE sc[k]]
    IN  [sc |-> sc2,
         up |-> [isNone |-> FALSE, description |-> "merge", history |-> "None",
                 added |-> <<new>>, deleted |-> SortedSeq(S),
                 descendants |-> {<<o, new>> : o \in S},
                 old_spikes_per_cluster |-> SpcOf(sc),
                 new_spikes_per_cluster |-> SpcOf(sc2)]]

\* The update of an assignment of the records T to one new cluster; what is
\* left of every cluster they are taken from gets a new id of its own.
AssignUpdate(sc, T, new) ==
    LET affected == {sc[s + 1] : s \in T}
        left == {o \in affected : \E k \in DOMAIN sc : sc[k] = o /\ (k - 1) \notin T}
        rank(o) == Cardinality({x \in left : x <= o})
        sc2 == [k \in DOMAIN sc |->
                   IF (k - 1) \in T THEN new
                   ELSE IF sc[k] \in left THEN new + rank(sc[k]) ELSE sc[k]]
    IN  [sc |-> sc2,
         up |-> [isNone |-> FALSE, description |-> "assign", history |-> "None",
                 added |-> SortedSeq({sc2[k] : k \in {j \in DOMAIN sc : sc[j] \in affected}}),
                 deleted |-> SortedSeq(affected),
                 descendants |-> {<<sc[k], sc2[k]>> :
                                     k \in {j \in DOMAIN sc : sc[j] \in affected}},
                 old_spikes_per_cluster |-> SpcOf(sc),
                 new_spikes_per_cluster |-> SpcOf(sc2)]]

\* The driver hands update u to the items after the clustering became sc2.
Dispatch(u, sc2) ==
    /\ pc = "idle"
    /\ spike_clusters' = sc2
    /\ up' = u
    /\ pc' = "fm_on_cluster"
    /\ mode' = "none"
    /\ err' = FALSE
    /\ UNCHANGED <<chunk_size, fm_vars, w_vars, clusters_to_generate, i, fresh,
                   prev, ret, pr_vars>>

MergeEvent ==
    /\ NextId <= MaxCluster
    /\ \E S \in SUBSET Range(spike_clusters) :
        /\ Cardinality(S) >= 2
        /\ LET e == MergeUpdate(spike_clusters, S, NextId)
           IN  /\ Dispatch(e.up, e.sc)
               /\ hist' = [up |-> e.up, before |-> spike_clusters,
                           after |-> e.sc, undone |-> FALSE]

AssignEvent ==
    /\ NextId <= MaxCluster
    /\ \E T \in SUBSET (0 .. (n_spikes - 1)) :
        /\ T # {}
        /\ LET e == AssignUpdate(spike_clusters, T, NextId)
           IN  /\ \A k \in DOMAIN e.sc : e.sc[k] <= MaxCluster
               /\ Dispatch(e.up, e.sc)
               /\ hist' = [up |-> e.up, before |-> spike_clusters,
                           after |-> e.sc, undone |-> FALSE]

\* Undo of the last update: the clustering goes back, and the items get the
\* reverse update, marked as history.
UndoEvent ==
    /\ ~hist.up.isNone
    /\ ~hist.undone
    /\ Dispatch([hist.up EXCEPT
                    !.history = "undo",
                    !.added = hist.up.deleted,
                    !.deleted = hist.up.added,
                    !.descendants = {<<p[2], p[1]>> : p \in hist.up.descendants},
                    !.old_spikes_per_cluster = hist.up.new_spikes_per_cluster,
                    !.new_spikes_per_cluster = hist.up.old_spikes_per_cluster],
                hist.before)
    /\ hist' = [hist EXCEPT !.undone = TRUE]

RedoEvent ==
    /\ ~hist.up.isNone
    /\ hist.undone
    /\ Dispatch([hist.up EXCEPT !.history = "redo"], hist.after)
    /\ hist' = [hist EXCEPT !.undone = FALSE]

\* on_cluster() called without an update.
NoUpdateEvent ==
    /\ Dispatch(NoUp, spike_clusters)
    /\ UNCHANGED hist

\* An update whose description is neither merge nor assign: it names the
\* clusters A as added and changes no assignment.
OtherUpdate(sc, A) ==
    [isNone |-> FALSE, description |-> "other", history |-> "None",
     added |-> SortedSeq(A), deleted |-> <<>>, descendants |-> {},
     old_spikes_per_cluster |-> SpcOf(sc),
     new_spikes_per_cluster |-> SpcOf(sc)]

\* on_cluster() called with such an update, for added sets of every size up
\* to MaxAdded.
OtherEvent ==
    /\ pr_memory.value <= MaxProgress
    /\ \E A \in SUBSET Clusters :
           /\ Cardinality(A) <= MaxAdded
           /\ Dispatch(OtherUpdate(spike_clusters, A), spike_clusters)
    /\ UNCHANGED hist

\* FeatureMasks.on_cluster(up)
FMOnCluster ==
    /\ pc = "fm_on_cluster"
    /\ LET r == OnCluster(disk, memory, up)
       IN  /\ disk' = r.d
           /\ memory' = r.mem
           /\ IF r.err THEN Return("on_cluster", TRUE)
              ELSE Continue("w_on_cluster")
    /\ pr_memory' = ProgressOnCluster(pr_memory, disk, up)
    /\ UNCHANGED <<model_vars, w_vars, hist, ret, pr_disk>>

\* Waveforms.on_cluster(up)
WaveformsOnCluster ==
    /\ pc = "w_on_cluster"
    /\ LET w == WOnCluster([d |-> wdisk, mem |-> wmemory], spike_clusters, up)
       IN  /\ wdisk' = w.d
           /\ wmemory' = w.mem
    /\ Return("on_cluster", FALSE)
    /\ UNCHANGED <<model_vars, fm_vars, hist, ret, pr_vars>>

Next ==
    \/ \E m \in {"default", "force", "read-only"} : StoreAllClusters(m)
    \/ StoreChunkStep
    \/ StoreChunksEnd
    \/ StoreAllExtra
    \/ WStoreAllClusters
    \/ MergeEvent
    \/ AssignEvent
    \/ UndoEvent
    \/ RedoEvent
    \/ NoUpdateEvent
    \/ FMOnCluster
    \/ WaveformsOnCluster

Spec == Init /\ [][Next]_vars

\* Bulk generation alone: the passes of store_all_clusters over both items.
NextGen ==
    \/ \E m \in {"default", "force", "read-only"} : StoreAllClusters(m)
    \/ StoreChunkStep
    \/ StoreChunksEnd
    \/ StoreAllExtra
    \/ WStoreAllClusters

SpecGen == Init /\ [][NextGen]_vars

\* Incremental updates alone: partition changes and their replays, handed to
\* on_cluster of both items.  on_cluster does not read chunk_size.
\* The store has been generated before; at most one cluster's files are not
\* what the last pass left.
InitUpd ==
    /\ Init
    /\ chunk_size = 1
    /\ Cardinality({c \in DOMAIN spikes_per_cluster :
                       disk[c] # InitFiles("ok", spikes_per_cluster[c])}) <= 1

NextUpd ==
    \/ MergeEvent
    \/ AssignEvent
    \/ UndoEvent
    \/ RedoEvent
    \/ NoUpdateEvent
    \/ FMOnCluster
    \/ WaveformsOnCluster

SpecUpd == InitUpd /\ [][NextUpd]_vars

\* Bulk generation and incremental updates in any order.  The store has been
\* generated before: record 0 is cluster 0, all others are cluster 1, and
\* every file is what a first pass leaves.  The passes are those that write
\* (default and force).
InitAll ==
    /\ InitUpd
    /\ spike_clusters = [k \in 1 .. MaxSpikes |-> IF k = 1 THEN 0 ELSE 1]
    /\ \A c \in DOMAIN spikes_per_cluster :
           disk[c] = InitFiles("ok", spikes_per_cluster[c])

NextAll ==
    \/ \E m \in {"default", "force"} : StoreAllClusters(m)
    \/ StoreChunkStep
    \/ StoreChunksEnd
    \/ StoreAllExtra
    \/ WStoreAllClusters
    \/ MergeEvent
    \/ AssignEvent
    \/ UndoEvent
    \/ RedoEvent
    \/ FMOnCluster
    \/ WaveformsOnCluster

SpecAll == InitAll /\ [][NextAll]_vars

\* on_cluster under any description: merges, assignments and updates of
\* another description, handed to both items, on a store generated before.
InitTag == InitAll

NextTag ==
    \/ MergeEvent
    \/ AssignEvent
    \/ OtherEvent
    \/ FMOnCluster
    \/ WaveformsOnCluster

SpecTag == InitTag /\ [][NextTag]_vars

\* ------------------------------------------- the chunk loop, any length
\* Like Init, for every number of records from none to MaxSpikes: the
\* records are all of cluster 0 or alternate between clusters 0 and 1, and
\* every cluster's files are complete or absent.
InitLoop ==
    /\ \E n \in 0 .. MaxSpikes :
          spike_clusters \in {[k \in 1 .. n |-> 0],
                               [k \in 1 .. n |-> (k - 1) % 2]}
    /\ chunk_size \in 1 .. MaxChunk
    /\ \E cond \in [DOMAIN spikes_per_cluster -> {"missing", "ok"}] :
          /\ disk = [c \in Clusters |->
                        IF c \in DOMAIN cond
                        THEN InitFiles(cond[c], spikes_per_cluster[c])
                        ELSE InitFiles("missing", <<>>)]
          /\ wdisk = [c \in Clusters |->
                        IF c \in DOMAIN cond
                        THEN InitWFiles(cond[c],
                                        SubsetSpikesClusters(spike_clusters, c))
                        ELSE InitWFiles("missing", <<>>)]
    /\ memory = [c \in Clusters |-> NoStats]
    /\ wmemory = [c \in Clusters |-> NoMean]
    /\ pc = "idle"
    /\ mode = "none"
    /\ clusters_to_generate = {}
    /\ i = 0
    /\ up = NoUp
    /\ hist = NoHist
    /\ err = FALSE
    /\ fresh = FALSE
    /\ prev = NoCall
    /\ ret = NoRet
    /\ pr_disk = NoProgress
    /\ pr_memory = NoProgress

\* A loop that has started runs on: lines 194-222 are plain sequential code
\* without any wait.  Every iteration changes i and the end of the loop
\* changes pc, so these are the subscripts of the fairness conditions.
SpecLoop ==
    /\ InitLoop
    /\ [][NextGen]_vars
    /\ WF_i(StoreChunkStep)
    /\ WF_pc(StoreChunksEnd)

\* ------------------------------------------- is_consistent as a function
\* Every state a field's file can be in: missing, or any number of whole
\* rows followed by no byte, one byte, or one byte less than a row.
FileStates(name) ==
    {NoFile} \cup
    {[exists |-> TRUE, rows |-> [k \in 1 .. r |-> StaleRow], pad |-> p] :
        r \in 0 .. MaxSpikes, p \in {0, 1, RowBytes(name) - 1}}

NoFiles  == [features |-> NoFile, masks |-> NoFile]
NoWFiles == [waveforms |-> NoFile, waveforms_spikes |-> NoFile]

\* One cluster, 0, holding every record; the files of one of the two items
\* are in any state.
InitIC ==
    /\ \E n \in 0 .. MaxSpikes : spike_clusters = [k \in 1 .. n |-> 0]
    /\ chunk_size = 1
    /\ \/ /\ \E f \in FileStates("features"), m \in FileStates("masks") :
                disk = [c \in Clusters |->
                           IF c = 0 THEN [features |-> f, masks |-> m]
                           ELSE NoFiles]
          /\ wdisk = [c \in Clusters |-> NoWFiles]
       \/ /\ disk = [c \in Clusters |-> NoFiles]
          /\ \E w \in FileStates("waveforms"),
                s \in FileStates("waveforms_spikes") :
                wdisk = [c \in Clusters |->
                            IF c = 0
                            THEN [waveforms |-> w, waveforms_spikes |-> s]
                            ELSE NoWFiles]
    /\ memory = [c \in Clusters |-> NoStats]
    /\ wmemory = [c \in Clusters |-> NoMean]
    /\ pc = "idle"
    /\ mode = "none"
    /\ clusters_to_generate = {}
    /\ i = 0
    /\ up = NoUp
    /\ hist = NoHist
    /\ err = FALSE
    /\ fresh = FALSE
    /\ prev = NoCall
    /\ ret = NoRet
    /\ pr_disk = NoProgress
    /\ pr_memory = NoProgress

store_vars == <<spike_clusters, chunk_size, disk, memory, wdisk, wmemory, pc,
                mode, clusters_to_generate, i, up, hist, err, fresh, prev,
                pr_disk, pr_memory>>

\* FeatureMasks.is_consistent(0, records of cluster 0)
IsConsistentQuery ==
    /\ pc = "idle"
    /\ ret' = [item |-> "features and masks",
               value |-> IsConsistent(disk, 0, AllSpikes(spike_clusters))]
    /\ UNCHANGED store_vars

\* Waveforms.is_consistent(0, records of cluster 0)
WIsConsistentQuery ==
    /\ pc = "idle"
    /\ ret' = [item |-> "waveforms",
               value |-> WIsConsistent(wdisk, 0, AllSpikes(spike_clusters))]
    /\ UNCHANGED store_vars

NextIC == IsConsistentQuery \/ WIsConsistentQuery

SpecIC == InitIC /\ [][NextIC]_vars

\* --------------------------------- _store_extra_fields as a function
\* Mask values in tenths: 0, 0.1 (the cutoff) and 1.0.
MaskValues == {0, 1, 10}

\* Every masks array of up to MaxMaskRows rows.
MaskArrays ==
    UNION {[1 .. n -> [Channels -> MaskValues]] : n \in 0 .. MaxMaskRows}

\* One cluster, 0, holding one record; the masks array that line 71 loads
\* for it is chosen by the action.
InitStats ==
    /\ spike_clusters = <<0>>
    /\ chunk_size = 1
    /\ disk = [c \in Clusters |-> NoFiles]
    /\ wdisk = [c \in Clusters |-> NoWFiles]
    /\ memory = [c \in Clusters |-> NoStats]
    /\ wmemory = [c \in Clusters |-> NoMean]
    /\ pc = "idle"
    /\ mode = "none"
    /\ clusters_to_generate = {}
    /\ i = 0
    /\ up = NoUp
    /\ hist = NoHist
    /\ err = FALSE
    /\ fresh = FALSE
    /\ prev = NoCall
    /\ ret = NoRet
    /\ pr_disk = NoProgress
    /\ pr_memory = NoProgress

\* Lines 77-93 for cluster 0 on the loaded array masks: the memory store
\* gets the fields; ret remembers the array.
StoreExtraFieldsOf ==
    /\ pc = "idle"
    /\ ret = NoRet
    /\ \E masks \in MaskArrays :
          /\ memory' = [memory EXCEPT ![0] = ExtraFields(masks)]
          /\ ret' = [item |-> "extra fields", value |-> TRUE, masks |-> masks]
    /\ pr_memory' = SetComplete(Increment(SetValueMax(pr_memory, 1), 1))
    /\ UNCHANGED <<spike_clusters, chunk_size, disk, wdisk, wmemory, pc, mode,
                   clusters_to_generate, i, up, hist, err, fresh, prev, pr_disk>>

NextStats == StoreExtraFieldsOf

SpecStats == InitStats /\ [][NextStats]_vars

\* ------------------------------------------------------------ properties
\* The row a cluster among `clusters` stored in field name for record s: the
\* row at the position s has among the records spc lists for that cluster.
StoredRow(d, spc, clusters, name, s) ==
    LET c == CHOOSE x \in clusters : s \in Range(spc[x])
        p == CHOOSE q \in DOMAIN spc[c] : spc[c][q] = s
    IN  d[c][name].rows[p]

ForwardUpdate(description) ==
    /\ pc = "w_on_cluster"
    /\ ~up.isNone
    /\ up.history = "None"
    /\ up.description = description

\* C1: when FeatureMasks.on_cluster has handled a merge that is no replay,
\* each disk field of the added cluster holds, for the k-th smallest record
\* of the union of the deleted clusters' record sets, the row the deleted
\* cluster of that record stored for it: ascending record order, not the
\* old arrays one after the other.
C1_MergeOrder ==
    ForwardUpdate("merge") =>
        LET old == Range(up.deleted)
            spc == up.old_spikes_per_cluster
            records == SortedSeq(UNION {Range(spc[c]) : c \in old})
        IN  \A name \in Fields :
                LET f == disk[up.added[1]][name]
                IN  /\ f.exists
                    /\ f.pad = 0
                    /\ Len(f.rows) = Len(records)
                    /\ \A k \in DOMAIN records :
                           f.rows[k] = StoredRow(disk, spc, old, name, records[k])

\* A merge was handled whose result is not the old arrays one after the other.
C1_Witness ==
    /\ ForwardUpdate("merge")
    /\ LET old == up.deleted
       IN  disk[up.added[1]]["features"].rows #
               Flatten([k \in DOMAIN old |-> disk[old[k]]["features"].rows])

\* C2: when FeatureMasks.on_cluster has handled an assign that is no replay,
\* each disk field of every added cluster N holds one row per record of
\* new_spikes_per_cluster[N], in ascending record order, each the row the
\* deleted cluster of that record stored for it.
C2_AssignRows ==
    ForwardUpdate("assign") =>
        \A N \in Range(up.added) : \A name \in Fields :
            LET f == disk[N][name]
                records == up.new_spikes_per_cluster[N]
            IN  /\ f.exists
                /\ f.pad = 0
                /\ Len(f.rows) = Len(records)
                /\ \A k \in DOMAIN records :
                       f.rows[k] = StoredRow(disk, up.old_spikes_per_cluster,
                                             Range(up.deleted), name, records[k])

\* An assign was handled that made two new clusters, one of them out of the
\* records of two old clusters.
C2_Witness ==
    /\ ForwardUpdate("assign")
    /\ Len(up.added) >= 2
    /\ \E N \in Range(up.added) :
           Cardinality({o \in Range(up.deleted) : <<o, N>> \in up.descendants}) >= 2

\* C3: an on_cluster call of either item whose update is absent or replays
\* history changes no disk field and no memory field of any cluster.
C3_ReplayNoOp ==
    [][/\ (pc = "fm_on_cluster" /\ (up.isNone \/ up.history # "None"))
            => (disk' = disk /\ memory' = memory)
       /\ (pc = "w_on_cluster" /\ (up.isNone \/ up.history # "None"))
            => (wdisk' = wdisk /\ wmemory' = wmemory)]_vars

\* FeatureMasks.on_cluster has returned from the undo of a merge whose merged
\* cluster has its files.
C3_Witness ==
    /\ pc = "w_on_cluster"
    /\ up.history = "undo"
    /\ up.description = "merge"
    /\ disk[up.deleted[1]]["features"].exists
    /\ disk[up.deleted[1]]["masks"].exists

\* C4: after the chunk loop of a pass that found no file of a pending
\* cluster, each pending cluster's features and masks hold one row per
\* record of the cluster in ascending record order, and the same files as
\* the loop leaves with a chunk size that holds all records in one chunk.
C4_ChunkingIrrelevant ==
    (pc = "fm_extra" /\ fresh /\ clusters_to_generate # {}) =>
        LET one == ChunkLoop([c \in Clusters |-> NoFiles], spike_clusters,
                             n_spikes + 1, clusters_to_generate, 0)
        IN  \A c \in clusters_to_generate : \A name \in Fields :
                /\ disk[c][name] = File(spikes_per_cluster[c])
                /\ disk[c][name] = one[c][name]

\* The loop has ended for a pending cluster whose records lie in two chunks.
C4_Witness ==
    /\ pc = "fm_extra"
    /\ fresh
    /\ \E c \in clusters_to_generate :
           \E s1, s2 \in Range(spikes_per_cluster[c]) :
               s1 \div chunk_size # s2 \div chunk_size

\* C5: in a default-mode call that follows a default-mode call, the pending
\* set is empty (so the call writes nothing).
C5_SecondCallIdle ==
    (prev.op = "store_all" /\ prev.mode = "default" /\ mode = "default")
        => clusters_to_generate = {}

\* C6: after the chunk loop of a force-mode pass, the features and masks
\* files of every known cluster hold exactly the rows of that pass: one row
\* per current record of the cluster.
C6_ForceRewrites ==
    (pc = "fm_extra" /\ mode = "force") =>
        \A c \in DOMAIN spikes_per_cluster : \A name \in Fields :
            disk[c][name] = File(spikes_per_cluster[c])

\* C7: a default-mode pass has every cluster with a missing or wrong-sized
\* file in its pending set, and after the call returned every known cluster
\* is consistent.
C7_NoStaleData ==
    /\ (mode = "default" /\ pc = "fm_chunk" /\ i = 0) =>
           \A c \in DOMAIN spikes_per_cluster :
               (\E name \in Fields :
                    \/ ~disk[c][name].exists
                    \/ FileSize(disk[c][name], name)
                           # Len(spikes_per_cluster[c]) * RowBytes(name))
                   => c \in clusters_to_generate
    /\ (pc = "idle" /\ prev.op = "store_all" /\ prev.mode = "default") =>
           \A c \in DOMAIN spikes_per_cluster :
               IsConsistent(disk, c, spikes_per_cluster[c])

\* C8: a read-only call has an empty pending set, and no step of it changes
\* a disk field of FeatureMasks or of Waveforms.
C8_ReadOnlyNeverWrites ==
    [][/\ mode' = "read-only" =>
              (clusters_to_generate' = {} /\ disk' = disk /\ wdisk' = wdisk)
       /\ mode = "read-only" => (disk' = disk /\ wdisk' = wdisk)]_vars

\* A read-only call has returned on a store where a cluster's files of both
\* items exist and are inconsistent.
C8_Witness ==
    /\ pc = "idle"
    /\ prev.op = "store_all"
    /\ prev.mode = "read-only"
    /\ ~prev.err
    /\ \E c \in DOMAIN spikes_per_cluster :
           /\ ~IsConsistent(disk, c, spikes_per_cluster[c])
           /\ ~WIsConsistent(wdisk, c, spikes_per_cluster[c])

\* A file one byte longer, and one byte shorter when it is not empty.
OneByteOff(f, name) ==
    {[f EXCEPT !.pad = @ + 1]} \cup
    (IF f.pad > 0 THEN {[f EXCEPT !.pad = @ - 1]}
     ELSE IF Len(f.rows) > 0
          THEN {[f EXCEPT !.rows = SubSeq(@, 1, Len(@) - 1),
                          !.pad = RowBytes(name) - 1]}
          ELSE {})

C9_Value ==
    ret.item = "features and masks" =>
        LET n == Len(spike_clusters)
            f == disk[0]["features"]
            m == disk[0]["masks"]
        IN  /\ ret.value <=>
                  /\ f.exists
                  /\ m.exists
                  /\ FileSize(m, "masks") = n * n_channels * 4
                  /\ FileSize(f, "features") = n * n_channels * n_features * 4
            /\ ret.value =>
                  \A name \in Fields : \A x \in OneByteOff(disk[0][name], name) :
                      ~IsConsistent([disk EXCEPT ![0][name] = x], 0,
                                    AllSpikes(spike_clusters))

\* C9: FeatureMasks.is_consistent is true exactly when both files exist, masks
\* has n*c*4 bytes and features n*c*f*4 bytes; one byte more or less in
\* either file of a consistent cluster makes it false; the query changes
\* nothing in the store.
C9_SizeArithmetic ==
    []C9_Value /\ [][ret' # ret => UNCHANGED store_vars]_vars

\* A cluster with records was reported consistent.
C9_Witness ==
    /\ ret.item = "features and masks"
    /\ ret.value
    /\ Len(spike_clusters) > 0

\* C10 as stated: is_consistent of either item is false whenever a disk
\* field's file is missing or its size is not record count * element size *
\* trailing dimensions.
C10_FalseOnAnySizeMismatch ==
    LET n == Len(spike_clusters)
    IN  /\ ret.item = "features and masks" =>
               ((\E name \in Fields :
                     \/ ~disk[0][name].exists
                     \/ FileSize(disk[0][name], name) # n * RowBytes(name))
                    => ~ret.value)
        /\ ret.item = "waveforms" =>
               ((\E name \in WFields :
                     \/ ~wdisk[0][name].exists
                     \/ FileSize(wdisk[0][name], name) # n * RowBytes(name))
                    => ~ret.value)

\* C10 amended: FeatureMasks.is_consistent is false whenever a file is missing
\* or has not the expected size; Waveforms.is_consistent is false exactly
\* when a file is missing or the two files hold different numbers of whole
\* records (size // 8 against size // (n_channels * n_samples * 4)).
C10_WholeRecordCounts ==
    LET n == Len(spike_clusters)
    IN  /\ ret.item = "features and masks" =>
               ((\E name \in Fields :
                     \/ ~disk[0][name].exists
                     \/ FileSize(disk[0][name], name) # n * RowBytes(name))
                    => ~ret.value)
        /\ ret.item = "waveforms" =>
               (~ret.value <=>
                    \/ ~wdisk[0]["waveforms"].exists
                    \/ ~wdisk[0]["waveforms_spikes"].exists
                    \/ FileSize(wdisk[0]["waveforms_spikes"], "waveforms_spikes") \div 8
                         # FileSize(wdisk[0]["waveforms"], "waveforms")
                               \div (n_channels * n_samples * 4))

\* A waveforms file one byte longer than its whole records was reported
\* consistent.
C10_Witness ==
    /\ ret.item = "waveforms"
    /\ ret.value
    /\ wdisk[0]["waveforms"].pad = 1
    /\ Len(wdisk[0]["waveforms"].rows) = Len(spike_clusters)
    /\ Len(spike_clusters) > 0
\* The forward merge or assign handed to FeatureMasks.on_cluster names a
\* deleted cluster that has no file of field name.
MissingDependency(name) ==
    /\ pc = "fm_on_cluster"
    /\ ~up.isNone
    /\ up.history = "None"
    /\ up.description \in {"merge", "assign"}
    /\ \E old \in Range(up.deleted) : ~disk[old][name].exists

C12_OnlyAddedWritten ==
    [][(~up.isNone /\ up.history = "None"
            /\ up.description \in {"merge", "assign"}) =>
          /\ pc = "fm_on_cluster" =>
                 /\ \A c \in Clusters \ Range(up.added) :
                        disk'[c] = disk[c] /\ memory'[c] = memory[c]
                 /\ wdisk' = wdisk
                 /\ wmemory' = wmemory
          /\ pc = "w_on_cluster" =>
                 /\ \A c \in Clusters \ Range(up.added) :
                        wdisk'[c] = wdisk[c] /\ wmemory'[c] = wmemory[c]
                 /\ disk' = disk
                 /\ memory' = memory]_vars

\* Both items have handled an assign whose deleted cluster came out of an
\* earlier merge, so that it had disk and memory fields of both items.
C12_Witness ==
    /\ pc = "idle"
    /\ ~err
    /\ hist.up.description = "assign"
    /\ ~hist.undone
    /\ \A old \in Range(hist.up.deleted) :
           /\ disk[old]["masks"].exists
           /\ memory[old].set
           /\ wdisk[old]["waveforms"].exists
           /\ wmemory[old].set
    /\ \A N \in Range(hist.up.added) : memory[N].set /\ wmemory[N].set

\* The mean of column ch of a masks array with rows is above the cutoff 0.1
\* (masks in tenths: the sum of the column is above the number of rows).
MeanAboveCutoff(masks, ch) ==
    Len(masks) > 0 /\ SumColumn(masks, ch) > Len(masks)

\* C13: for every masks array with rows, n_unmasked_channels is the number
\* of columns whose mean mask is strictly above 0.1, and main_channels lists
\* exactly those columns, each once, and no column whose mean is at or below
\* the cutoff.
C13_UnmaskedChannels ==
    (ret.item = "extra fields" /\ Len(ret.masks) > 0) =>
        LET above == {ch \in Channels : MeanAboveCutoff(ret.masks, ch)}
        IN  /\ memory[0].n_unmasked_channels = Cardinality(above)
            /\ Range(memory[0].main_channels) = above
            /\ Len(memory[0].main_channels) = Cardinality(above)

\* The column means are 0.05, 0.5 and 1.0: two unmasked channels, column 0
\* is not among them.
C13_Witness ==
    /\ ret.item = "extra fields"
    /\ Len(ret.masks) = 2
    /\ SumColumn(ret.masks, 0) = 1
    /\ SumColumn(ret.masks, 1) = 10
    /\ SumColumn(ret.masks, 2) = 20
    /\ memory[0].n_unmasked_channels = 2
    /\ 0 \notin Range(memory[0].main_channels)

\* C14: whenever the driver is idle (every store_all_clusters and on_cluster
\* call so far has ended), every cluster of FeatureMasks that has memory
\* fields has a masks file, and the memory fields are the statistics of the
\* rows that file holds now.
C14_MemoryFollowsDisk ==
    pc = "idle" =>
        \A c \in Clusters :
            memory[c].set =>
                /\ disk[c]["masks"].exists
                /\ memory[c] = ExtraFields(MasksOf(disk[c]["masks"].rows))

\* A pass has appended to the masks file of a cluster that had memory fields
\* from an earlier call, and has ended.
C14_Witness ==
    /\ pc = "idle"
    /\ prev.op = "store_all"
    /\ \E c \in Clusters :
           /\ c \in DOMAIN spikes_per_cluster
           /\ memory[c].set
           /\ Len(disk[c]["masks"].rows) > Len(spikes_per_cluster[c])
    /\ ~hist.up.isNone

\* C15: within a pass, a step that changes a file of FeatureMasks is
\* iteration i of the chunk loop: it appends, behind what the file held, rows
\* of records of chunk i only, and the counter moves on to i + 1, so the
\* appends to a file come in increasing chunk number; the memory fields
\* change only once the loop has ended, and no file changes afterwards.
C15_AppendsThenStatistics ==
    [][/\ \A c \in Clusters : \A name \in Fields :
              disk'[c][name] # disk[c][name] =>
                  LET old == disk[c][name].rows
                      new == disk'[c][name].rows
                  IN  /\ pc = "fm_chunk"
                      /\ i' = i + 1
                      /\ Len(new) > Len(old)
                      /\ SubSeq(new, 1, Len(old)) = old
                      /\ \A k \in (Len(old) + 1) .. Len(new) :
                             /\ new[k] >= i * chunk_size
                             /\ new[k] < (i + 1) * chunk_size
                             /\ k > Len(old) + 1 => new[k - 1] < new[k]
       /\ memory' # memory => pc = "fm_extra"
       /\ pc \in {"fm_extra", "w_store_all"} => disk' = disk]_vars

\* The statistics have been derived after a pass over files that existed,
\* in which a cluster got rows from two chunks.
C15_Witness ==
    /\ pc = "w_store_all"
    /\ ~fresh
    /\ i >= 2
    /\ \E c \in clusters_to_generate :
           /\ memory[c].set
           /\ \E s1, s2 \in Range(spikes_per_cluster[c]) :
                  s1 \div chunk_size # s2 \div chunk_size

\* C16: in every mode, a FeatureMasks.store_all_clusters call that has
\* returned (the Waveforms pass is next, or the driver call has ended without
\* an error) has given every cluster of the full known set all its memory
\* fields, computed from the masks file as it is on disk then, also when the
\* pending set was empty.
C16_AllClustersGetStatistics ==
    (\/ pc = "w_store_all"
     \/ (pc = "idle" /\ prev.op = "store_all" /\ ~prev.err)) =>
        \A c \in DOMAIN spikes_per_cluster :
            /\ memory[c].set
            /\ disk[c]["masks"].exists
            /\ memory[c].n_rows = Len(disk[c]["masks"].rows)
            /\ memory[c] = ExtraFields(MasksOf(disk[c]["masks"].rows))

\* A read-only call has returned on a store with two clusters of which one
\* is inconsistent: nothing was pending, both have their memory fields.
C16_Witness ==
    /\ pc = "idle"
    /\ prev.op = "store_all"
    /\ prev.mode = "read-only"
    /\ ~prev.err
    /\ Cardinality(DOMAIN spikes_per_cluster) = 2
    /\ \E c \in DOMAIN spikes_per_cluster :
           ~IsConsistent(disk, c, spikes_per_cluster[c])
    /\ \A c \in DOMAIN spikes_per_cluster : memory[c].set

\* The clusters that have a record in chunk k.
InChunk(k) ==
    {spike_clusters[p] : p \in {q \in DOMAIN spike_clusters :
                                    /\ q - 1 >= k * chunk_size
                                    /\ q - 1 < (k + 1) * chunk_size}}

C18_Loop ==
    LET n == Len(spike_clusters)
        full == IF n % chunk_size = 0 THEN n \div chunk_size
                ELSE (n \div chunk_size) + 1
    IN  /\ (pc = "fm_chunk" \/ pc = "fm_extra") => ~err
        /\ pc = "fm_chunk" =>
               /\ i <= full
               /\ i > 0 => (i - 1) * chunk_size < n
        /\ (pc = "fm_extra" /\ clusters_to_generate # {}) =>
               /\ i = full
               /\ i * chunk_size >= n
               /\ (i - 1) * chunk_size < n
               /\ i + (IF n % chunk_size = 0 THEN 1 ELSE 0)
                      <= (n \div chunk_size) + 1
               /\ fresh =>
                      \A c \in clusters_to_generate : \A name \in Fields :
                          disk[c][name].rows = spikes_per_cluster[c]

\* C18: the loop of FeatureMasks.store_all_clusters always terminates, for
\* every number of records and every chunk size: a loop that has started
\* reaches the straight-line code that follows it (lines 224-227), and it
\* reads at most n_spikes // chunk_size + 1 chunks, stops at the first empty
\* chunk without a failure, and has then covered every record in exactly one
\* chunk.
C18_Terminates ==
    /\ []C18_Loop
    /\ (pc = "fm_chunk") ~> (pc = "fm_extra")

\* The loop has ended at an empty chunk: the number of records is a multiple
\* of a chunk size of at least two, and the range of the loop was not used up.
C18_Witness ==
    /\ pc = "fm_extra"
    /\ clusters_to_generate # {}
    /\ chunk_size >= 2
    /\ Len(spike_clusters) % chunk_size = 0
    /\ i = Len(spike_clusters) \div chunk_size
    /\ i < NChunks(spike_clusters, chunk_size)

\* The other order of the two steps of lines 84-86, on column sums: the
\* unmasked columns are kept first (ascending, as np.nonzero lists them),
\* then sorted by ascending mean, ties by position, and reversed.  The result
\* of the sort is a sequence of positions (0-based) in the kept columns.
FilterThenSortPositions(sums, unmasked_channels) ==
    LET kept == SortedSeq(unmasked_channels)
        Before(p, q) == \/ sums[kept[p]] < sums[kept[q]]
                        \/ sums[kept[p]] = sums[kept[q]] /\ p < q
        ascending == [k \in 1 .. Len(kept) |->
                         CHOOSE p \in 1 .. Len(kept) :
                             Cardinality({q \in 1 .. Len(kept) : Before(q, p)})
                                 = k - 1]
    IN  Reverse([k \in 1 .. Len(kept) |-> ascending[k] - 1])

\* The columns at these positions: the ranking filter-then-sort gives.
FilterThenSort(sums, unmasked_channels) ==
    LET kept == SortedSeq(unmasked_channels)
        positions == FilterThenSortPositions(sums, unmasked_channels)
    IN  [k \in 1 .. Len(positions) |-> kept[positions[k] + 1]]

ColumnSums(masks) == [ch \in Channels |-> SumColumn(masks, ch)]

AboveCutoff(masks) == {ch \in Channels : MeanAboveCutoff(masks, ch)}

\* C19: for every masks array, with or without masked columns, main_channels
\* as the code computes it (all columns sorted by descending mean, then the
\* unmasked ones kept) is the ranking obtained by keeping the unmasked columns
\* first and sorting them by descending mean.  Only the positions of the
\* sorted columns inside the kept ones differ from it, and exactly when an
\* unmasked column comes after a masked one.
C19_RankingsAgree ==
    ret.item = "extra fields" =>
        LET sums == ColumnSums(ret.masks)
            unmasked_channels == AboveCutoff(ret.masks)
        IN  /\ memory[0].main_channels = FilterThenSort(sums, unmasked_channels)
            /\ memory[0].main_channels
                   = FilterThenSortPositions(sums, unmasked_channels)
               <=> \A c \in unmasked_channels : \A b \in 0 .. c :
                       b \in unmasked_channels

\* C19 as stated: with a masked column present and two unmasked columns to
\* order, the two rankings differ.
C19_DifferWhenMasked ==
    (/\ ret.item = "extra fields"
     /\ AboveCutoff(ret.masks) # Channels
     /\ Cardinality(AboveCutoff(ret.masks)) >= 2) =>
        memory[0].main_channels
            # FilterThenSort(ColumnSums(ret.masks), AboveCutoff(ret.masks))

\* Column 0 is masked and columns 1 and 2 are unmasked with different means,
\* the larger one first in the ranking.
C19_Witness ==
    /\ ret.item = "extra fields"
    /\ AboveCutoff(ret.masks) = {1, 2}
    /\ SumColumn(ret.masks, 1) < SumColumn(ret.masks, 2)
    /\ memory[0].main_channels = <<2, 1>>

\* C20: a FeatureMasks.on_cluster call that ends in an error has changed
\* nothing: no disk field of an added cluster was written by the call, and no
\* added cluster is left with a features file and no masks file.
C20_ErrorChangesNothing ==
    [][(pc = "fm_on_cluster" /\ err') =>
          \A N \in Range(up.added) :
              /\ \A name \in Fields : disk'[N][name] = disk[N][name]
              /\ disk'[N]["features"].exists => disk'[N]["masks"].exists]_vars

\* C21: over any sequence of store_all_clusters and on_cluster calls, neither
\* the disk nor the memory progress value ever exceeds its current maximum.
C21_ProgressWithinMaximum ==
    /\ pr_disk.value <= pr_disk.value_max
    /\ pr_memory.value <= pr_memory.value_max

\* The added cluster N is one on_cluster derives statistics for in this step:
\* the memory progress value counts one per cluster it has derived them for.
StatisticsDerived(N) ==
    \E k \in 1 .. Len(up.added) :
        /\ up.added[k] = N
        /\ k <= pr_memory'.value - pr_memory.value

\* The step has written disk field name of the added cluster N: the file is
\* there and is not the file that was there before.
FieldWritten(N, name) ==
    /\ disk'[N][name].exists
    /\ disk'[N][name] # disk[N][name]

==========================================================================
